---- MODULE Spec2Model ----
(***************************************************************************)
(* Zuno wallet service: the network registry (src/src/networks.py), the    *)
(* Circle client singleton (src/src/circle_client.py), the wallet          *)
(* operations facade (src/src/wallet_service.py) and the HTTP handlers     *)
(* that call it (src/src/api.py).  The custody provider behind the SDK is  *)
(* the environment: every SDK call either raises one of the provider's     *)
(* errors or answers from the provider's state.                            *)
(***************************************************************************)
EXTENDS Integers, Sequences, FiniteSets, TLC

\* ------------------------------------------------------------------------
\* Bounds of the model
\* ------------------------------------------------------------------------
\* uuid.uuid4() draws made in one run
MaxUuid == 2

\* ------------------------------------------------------------------------
\* Optional[str]
\* ------------------------------------------------------------------------
None == [is_none |-> TRUE]
Some(s) == [is_none |-> FALSE, v |-> s]
\* Python truthiness of an Optional[str]: None and "" are falsy
Truthy(o) == ~o.is_none /\ o.v # ""

\* ------------------------------------------------------------------------
\* networks.py
\* ------------------------------------------------------------------------
NetworkConfig(c, n, t, cur, url) ==
    [chain_id |-> c, name |-> n, is_testnet |-> t, native_currency |-> cur, explorer_url |-> url]

NETWORKS ==
    ("ARC-TESTNET" :> NetworkConfig("ARC-TESTNET", "Arc Testnet", TRUE, "ARC", "https://testnet.arcscan.com")) @@
    ("ARC-MAINNET" :> NetworkConfig("ARC-MAINNET", "Arc Mainnet", FALSE, "ARC", "https://arcscan.com")) @@
    ("MATIC-AMOY" :> NetworkConfig("MATIC-AMOY", "Polygon Amoy Testnet", TRUE, "MATIC", "https://amoy.polygonscan.com")) @@
    ("MATIC-MAINNET" :> NetworkConfig("MATIC-MAINNET", "Polygon Mainnet", FALSE, "MATIC", "https://polygonscan.com")) @@
    ("ARB-SEPOLIA" :> NetworkConfig("ARB-SEPOLIA", "Arbitrum Sepolia Testnet", TRUE, "ETH", "https://sepolia.arbiscan.io")) @@
    ("ARB-MAINNET" :> NetworkConfig("ARB-MAINNET", "Arbitrum One Mainnet", FALSE, "ETH", "https://arbiscan.io")) @@
    ("ETH-SEPOLIA" :> NetworkConfig("ETH-SEPOLIA", "Ethereum Sepolia Testnet", TRUE, "ETH", "https://sepolia.etherscan.io")) @@
    ("ETH-MAINNET" :> NetworkConfig("ETH-MAINNET", "Ethereum Mainnet", FALSE, "ETH", "https://etherscan.io")) @@
    ("AVAX-FUJI" :> NetworkConfig("AVAX-FUJI", "Avalanche Fuji Testnet", TRUE, "AVAX", "https://testnet.snowtrace.io")) @@
    ("AVAX-MAINNET" :> NetworkConfig("AVAX-MAINNET", "Avalanche C-Chain Mainnet", FALSE, "AVAX", "https://snowtrace.io")) @@
    ("SOL-DEVNET" :> NetworkConfig("SOL-DEVNET", "Solana Devnet", TRUE, "SOL", "https://explorer.solana.com/?cluster=devnet")) @@
    ("SOL-MAINNET" :> NetworkConfig("SOL-MAINNET", "Solana Mainnet", FALSE, "SOL", "https://explorer.solana.com"))

\* Chain ids handed to the registry functions: every key of the table and
\* some strings that are no key (a chain Circle does not offer, a key in the
\* wrong case, the empty string).
UnknownChainIds == {"DOGE-MAINNET", "arc-testnet", ""}
RegistryInputs == DOMAIN NETWORKS \cup UnknownChainIds

\* A Python call either returns a value or raises.
Return(v) == [raised |-> FALSE, value |-> v, error |-> [type |-> "", msg |-> ""]]
Raise(t, m) == [raised |-> TRUE, value |-> None, error |-> [type |-> t, msg |-> m]]

\* The module-level dict networks.NETWORKS as the process holds it: the
\* functions below read it, and list_networks without a flag returns the
\* dict itself.
VARIABLE networks

\* get_network with dict.get and a default instead of the membership test
get_network_defaulting(chain_id) ==
    IF chain_id \notin DOMAIN networks
    THEN Return(networks["ARC-TESTNET"])
    ELSE Return(networks[chain_id])

get_network(chain_id) ==
    IF chain_id \notin DOMAIN networks
    THEN Raise("ValueError", "Unsupported network: " \o chain_id)
    ELSE Return(networks[chain_id])

\* is_supported_network testing the default of SUPPORTED_BLOCKCHAINS
\* (config.py line 71) instead of the registry
is_supported_network_configured(chain_id) ==
    Return(chain_id \in {"ARC-TESTNET", "MATIC-AMOY", "ARB-SEPOLIA"})

is_supported_network(chain_id) == Return(chain_id \in DOMAIN networks)

\* A dict is modelled as the function from its keys to its values.
Restrict(f, S) == [k \in S |-> f[k]]

\* list_networks whose mainnet filter keeps the testnets too
list_networks_unfiltered_mainnet(testnet_only, mainnet_only) ==
    IF testnet_only
    THEN Return(Restrict(networks, {k \in DOMAIN networks : networks[k].is_testnet}))
    ELSE Return(networks)

list_networks(testnet_only, mainnet_only) ==
    IF testnet_only
    THEN Return(Restrict(networks, {k \in DOMAIN networks : networks[k].is_testnet}))
    ELSE IF mainnet_only
         THEN Return(Restrict(networks, {k \in DOMAIN networks : ~networks[k].is_testnet}))
         ELSE Return(networks)

\* ------------------------------------------------------------------------
\* Inputs of the requests
\* ------------------------------------------------------------------------
UserIds == {"u1", "u2"}
\* a key of the registry and a string that is no key
ChainIdInputs == {"ARC-TESTNET", "DOGE-MAINNET"}
AccountTypes == {"SCA", "EOA"}
\* no name, a name, the empty string
SetNameInputs == {None, Some("main"), Some("")}
WalletIdInputs == {"w1", "w2"}
SourceWalletIdInputs == {"w1"}
TransactionIdInputs == {"tx1", "tx2"}
ToAddressInputs == {"0xdest"}
TokenSymbolInputs == {"USDC"}
AmountInputs == {"10.50"}

\* models.py: the request bodies
CreateWalletRequestModel ==
    [user_id : UserIds, blockchain : ChainIdInputs, account_type : AccountTypes,
     wallet_set_name : SetNameInputs]

\* The provider's side of a wallet is the same for every wallet id (see
\* GetWalletEnvs), so transfers are sent from one wallet id.
SendTransactionRequest ==
    [wallet_id : SourceWalletIdInputs, to_address : ToAddressInputs, token_symbol : TokenSymbolInputs,
     amount : AmountInputs, blockchain : ChainIdInputs]

\* ------------------------------------------------------------------------
\* The provider behind the SDK.  The service keeps nothing of the provider's
\* state, so the provider is the environment of every call: it raises one of
\* its errors or answers, and what it answers is drawn from the sets below.
\* ------------------------------------------------------------------------
ProviderFaults == {"ProviderUnavailable", "ProviderAuthFailed", "ProviderRejected"}
\* "ok": the call answers.  "NoSuchId": the provider does not know the id.
ProviderOutcomes == {"ok"} \cup ProviderFaults
LookupOutcomes == ProviderOutcomes \cup {"NoSuchId"}

\* A chain name the provider may report for a wallet instead of the one asked for
ProviderChainAliases == {"EVM-TESTNET"}
\* Transaction states the provider reports for a new transfer
NewTransactionStates == {"INITIATED", "QUEUED"}

\* CIRCLE_ENTITY_SECRET: the secret registered with the provider for this
\* entity, and another value.  The provider accepts the calls that carry an
\* entity-secret ciphertext (create wallet set, create wallet, create
\* transfer) only from the holder of the registered secret.
RegisteredEntitySecret == "entity-secret-registered"
EntitySecrets == {RegisteredEntitySecret, "entity-secret-other"}
Authorizes(secret) == secret = RegisteredEntitySecret

Digit(n) == <<"0", "1", "2", "3", "4", "5", "6", "7", "8", "9">>[n + 1]

\* ------------------------------------------------------------------------
\* State
\* ------------------------------------------------------------------------
VARIABLES
    supported_blockchains, \* config.blockchain.supported_blockchains
    environment,      \* config.service.environment
    entity_secret,    \* config.circle.entity_secret
    circle_client,    \* circle_client._circle_client: "None", "uninit" (constructed, SDK handles unset), "ready"
    wallet_service,   \* wallet_service._wallet_service: "None" or "created"
    uuid_count,       \* number of uuid.uuid4() values drawn so far
    transfers,        \* the create-transfer requests sent to the provider so far, in order
    constructed,      \* history: the CircleClient and WalletService objects constructed so far, the
                      \* runs of CircleClient.initialize, and the clients (by number) the facades hold
    last,             \* the most recent call: what was asked, what the facade did, what came back
    log               \* the log records circle_client.py and wallet_service.py emitted in that call

vars == <<networks, supported_blockchains, environment, entity_secret, circle_client, wallet_service, uuid_count, transfers,
          constructed, last, log>>

\* uuid.uuid4(): the n-th draw of the process.  Version-4 UUIDs are 122 random
\* bits; a draw is modelled as a value no earlier draw produced.
uuid4(n) == "uuid-" \o Digit(n)

\* circle_client.py: the wallet_sets / wallets / transactions properties
NotInitialized == Raise("RuntimeError", "Circle client not initialized. Call initialize() first.")

ProviderError(outcome) ==
    IF outcome = "NoSuchId" THEN Raise("ProviderRejected", "not found")
    ELSE Raise(outcome, "provider error")

\* The requests and the results of different operations are values of
\* different shapes; a record of one keeps each under the operation's name.
Box(name, v) == name :> v
BoxResult(name, result) == IF result.raised THEN Box("raised", TRUE) ELSE Box(name, result.value)

\* One SDK call as the facade saw it: the request it sent and what came back
Call(api, request, result) == [api |-> api, request |-> Box(api, request), raised |-> result.raised,
                               value |-> BoxResult(api, result), error |-> result.error]

\* What one facade call did: its result, the SDK calls it made, the uuid draws
\* and the create-transfer requests after it
Done(result, calls, n, sent) == [raised |-> result.raised, value |-> result.value, error |-> result.error,
                                 calls |-> calls, uuid_count |-> n, transfers |-> sent]

\* ------------------------------------------------------------------------
\* SDK calls (the provider's side of each call site in wallet_service.py)
\* ------------------------------------------------------------------------
\* WalletSetsApi.create_wallet_set
sdk_create_wallet_set(request, outcome) ==
    IF outcome # "ok" THEN ProviderError(outcome)
    ELSE Return([id |-> "ws1", name |-> request.name])

\* WalletsApi.create_wallet: count wallets, here always 1; the provider reports
\* the chain and the account type of the wallet it made (reported)
sdk_create_wallet(request, outcome, reported) ==
    IF outcome # "ok" THEN ProviderError(outcome)
    ELSE Return(<<[id |-> "w1", wallet_set_id |-> request.wallet_set_id, address |-> "0xw1",
                   blockchain |-> reported.blockchain, account_type |-> reported.account_type,
                   state |-> "LIVE"]>>)

\* ------------------------------------------------------------------------
\* wallet_service.py: WalletService
\* ------------------------------------------------------------------------
\* create_wallet without its validation: every chain id goes on to the provider
create_wallet_validate_skipped(request) == Return(None)

\* create_wallet, lines 52-56: the validation that precedes the try block
create_wallet_validate(request) ==
    IF ~is_supported_network(request.blockchain).value
    THEN Raise("ValueError", "Unsupported blockchain: " \o request.blockchain)
    ELSE get_network(request.blockchain)

\* A default name that does not tell the users apart
wallet_set_name_of_shared_default(request) ==
    IF Truthy(request.wallet_set_name)
    THEN request.wallet_set_name.v
    ELSE "user-wallets"

\* create_wallet, line 60
wallet_set_name_of(request) ==
    IF Truthy(request.wallet_set_name)
    THEN request.wallet_set_name.v
    ELSE "user-" \o request.user_id \o "-wallets"

\* A response that echoes the chain and the account type of the request
WalletResponse_echoing_request(wallet, wallet_set, request) ==
    [wallet_id |-> wallet.id, wallet_set_id |-> wallet_set.id, address |-> wallet.address,
     blockchain |-> request.blockchain, account_type |-> request.account_type]

\* create_wallet, lines 85-92 (created_at, the local clock, is left out)
WalletResponse(wallet, wallet_set, request) ==
    [wallet_id |-> wallet.id, wallet_set_id |-> wallet_set.id, address |-> wallet.address,
     blockchain |-> wallet.blockchain, account_type |-> wallet.account_type]

\* A create-wallet request that always asks for the default account type
create_wallet_request_of_default_type(request, wallet_set, n) ==
    [idempotency_key |-> uuid4(n), wallet_set_id |-> wallet_set.id, account_type |-> "SCA",
     blockchains |-> <<request.blockchain>>, count |-> 1]

\* create_wallet, lines 72-78: the idempotency key is the n-th uuid4 of the process
create_wallet_request_of(request, wallet_set, n) ==
    [idempotency_key |-> uuid4(n), wallet_set_id |-> wallet_set.id,
     account_type |-> request.account_type, blockchains |-> <<request.blockchain>>, count |-> 1]

\* An except branch that raises an error of its own in place of the caught one
create_wallet_except_wrapping(e) == Raise("Exception", "Failed to create wallet")

\* create_wallet, lines 94-96: the except branch logs and re-raises
create_wallet_except(e) == e

\* env: what the provider does in this call (o1, o2: the outcomes of the two
\* SDK calls; reported: the chain and account type it reports for the wallet)
create_wallet(client, n, sent, request, env) ==
    LET valid == create_wallet_validate(request)
        wallet_set_request == [name |-> wallet_set_name_of(request)]
        r1 == sdk_create_wallet_set(wallet_set_request, env.o1)
        c1 == Call("create_wallet_set", wallet_set_request, r1)
        wallet_set == r1.value
        create_wallet_request == create_wallet_request_of(request, wallet_set, n + 1)
        r2 == sdk_create_wallet(create_wallet_request, env.o2, env.reported)
        c2 == Call("create_wallet", create_wallet_request, r2)
    IN IF valid.raised THEN Done(valid, <<>>, n, sent)
       ELSE IF client # "ready" THEN Done(create_wallet_except(NotInitialized), <<>>, n, sent)
       ELSE IF r1.raised THEN Done(create_wallet_except(r1), <<c1>>, n, sent)
       ELSE IF r2.raised THEN Done(create_wallet_except(r2), <<c1, c2>>, n + 1, sent)
       ELSE Done(Return(WalletResponse(r2.value[1], wallet_set, request)), <<c1, c2>>, n + 1, sent)

\* WalletsApi.get_wallet: stored is the wallet as the provider holds it
sdk_get_wallet(wallet_id, outcome, stored) ==
    IF outcome # "ok" THEN ProviderError(outcome)
    ELSE Return([id |-> wallet_id, wallet_set_id |-> "ws1", address |-> "0x" \o wallet_id,
                 blockchain |-> stored.blockchain, account_type |-> stored.account_type,
                 state |-> "LIVE"])

StoredWallets == [blockchain : {"ARC-TESTNET"} \cup ProviderChainAliases, account_type : {"SCA"}]

\* get_wallet with the except branch of get_balance: log and re-raise
get_wallet_except_reraise(e) == e

\* get_wallet, lines 119-121: the except branch
get_wallet_except(e) == Return(None)

get_wallet(client, n, sent, wallet_id, env) ==
    LET r == sdk_get_wallet(wallet_id, env.o1, env.stored)
        c == Call("get_wallet", wallet_id, r)
        wallet == r.value
    IN IF client # "ready" THEN Done(get_wallet_except(NotInitialized), <<>>, n, sent)
       ELSE IF r.raised THEN Done(get_wallet_except(r), <<c>>, n, sent)
       ELSE Done(Return(Some([wallet_id |-> wallet.id, wallet_set_id |-> wallet.wallet_set_id,
                              address |-> wallet.address, blockchain |-> wallet.blockchain,
                              account_type |-> wallet.account_type, state |-> wallet.state])),
                 <<c>>, n, sent)

\* What WalletsApi.get_wallet_token_balance can answer: an object without a
\* data attribute, a data object without a token_balances attribute, a
\* token_balances attribute that is None, or a list of token balances
TokenBalance == [token |-> [symbol |-> "USDC", decimals |-> 6, address |-> "0xusdc"], amount |-> "100.50"]
BalanceResponses ==
    {[has_data |-> FALSE, has_token_balances |-> FALSE, token_balances |-> None],
     [has_data |-> TRUE, has_token_balances |-> FALSE, token_balances |-> None],
     [has_data |-> TRUE, has_token_balances |-> TRUE, token_balances |-> None],
     [has_data |-> TRUE, has_token_balances |-> TRUE, token_balances |-> Some(<<>>)],
     [has_data |-> TRUE, has_token_balances |-> TRUE, token_balances |-> Some(<<TokenBalance>>)]}

sdk_get_wallet_token_balance(wallet_id, outcome, balance_response) ==
    IF outcome # "ok" THEN ProviderError(outcome) ELSE Return(balance_response)

\* get_balance reading data.token_balances without the hasattr probes
balances_of_unprobed(balance_response) ==
    IF ~(balance_response.has_data /\ balance_response.has_token_balances)
    THEN Raise("AttributeError", "object has no attribute")
    ELSE IF balance_response.token_balances.is_none
         THEN Raise("TypeError", "'NoneType' object is not iterable")
         ELSE LET tbs == balance_response.token_balances.v
              IN Return([i \in DOMAIN tbs |->
                           [token |-> tbs[i].token.symbol, amount |-> tbs[i].amount,
                            decimals |-> tbs[i].token.decimals,
                            contract_address |-> tbs[i].token.address]])

\* get_balance, lines 148-156.  str(amount) of an amount the SDK hands over as
\* a string is that string.
balances_of(balance_response) ==
    IF balance_response.has_data /\ balance_response.has_token_balances
    THEN IF balance_response.token_balances.is_none
         THEN Raise("TypeError", "'NoneType' object is not iterable")
         ELSE LET tbs == balance_response.token_balances.v
              IN Return([i \in DOMAIN tbs |->
                           [token |-> tbs[i].token.symbol, amount |-> tbs[i].amount,
                            decimals |-> tbs[i].token.decimals,
                            contract_address |-> tbs[i].token.address]])
    ELSE Return(<<>>)

\* get_balance with the except branch of get_wallet: an empty result
get_balance_except_empty(e) == Return([address |-> "", blockchain |-> "", balances |-> <<>>])

\* get_balance, lines 164-166: the except branch logs and re-raises
get_balance_except(e) == e

get_balance(client, n, sent, wallet_id, env) ==
    LET r1 == sdk_get_wallet(wallet_id, env.o1, env.stored)
        c1 == Call("get_wallet", wallet_id, r1)
        wallet == r1.value
        r2 == sdk_get_wallet_token_balance(wallet_id, env.o2, env.balance_response)
        c2 == Call("get_wallet_token_balance", wallet_id, r2)
        balances == balances_of(r2.value)
    IN IF client # "ready" THEN Done(get_balance_except(NotInitialized), <<>>, n, sent)
       ELSE IF r1.raised THEN Done(get_balance_except(r1), <<c1>>, n, sent)
       ELSE IF r2.raised THEN Done(get_balance_except(r2), <<c1, c2>>, n, sent)
       ELSE IF balances.raised THEN Done(get_balance_except(balances), <<c1, c2>>, n, sent)
       ELSE Done(Return([address |-> wallet.address, blockchain |-> wallet.blockchain,
                         balances |-> balances.value]), <<c1, c2>>, n, sent)

\* TransactionsApi.create_developer_transaction_transfer
sdk_create_developer_transaction_transfer(request, outcome, state) ==
    IF outcome # "ok" THEN ProviderError(outcome)
    ELSE Return([id |-> "tx1", state |-> state])

\* send_transaction without its validation
send_transaction_validate_skipped(request) == Return(None)

\* send_transaction, lines 187-189
send_transaction_validate(request) ==
    IF ~is_supported_network(request.blockchain).value
    THEN Raise("ValueError", "Unsupported blockchain: " \o request.blockchain)
    ELSE Return(None)

\* An idempotency key derived from what is sent instead of drawn afresh
idempotency_key_of_request(request, n) ==
    "key-" \o request.wallet_id \o "-" \o request.to_address \o "-" \o request.amount

\* send_transaction, line 198: the n-th uuid4 of the process
idempotency_key(request, n) == uuid4(n)

\* A response whose destination is read from the looked-up wallet
TransactionResponse_of_wallet(transaction, wallet, request) ==
    [transaction_id |-> transaction.id, wallet_id |-> request.wallet_id, status |-> transaction.state,
     blockchain_tx_hash |-> None, from_address |-> wallet.address, to_address |-> wallet.address,
     amount |-> request.amount, token_symbol |-> request.token_symbol]

\* send_transaction, lines 213-223 (created_at, the local clock, is left out)
TransactionResponse(transaction, wallet, request) ==
    [transaction_id |-> transaction.id, wallet_id |-> request.wallet_id, status |-> transaction.state,
     blockchain_tx_hash |-> None, from_address |-> wallet.address, to_address |-> request.to_address,
     amount |-> request.amount, token_symbol |-> request.token_symbol]

\* send_transaction submitting the transfer before it looks the wallet up
send_transaction_submitting_first(client, n, sent, request, env) ==
    LET valid == send_transaction_validate(request)
        r1 == sdk_get_wallet(request.wallet_id, env.o1, env.stored)
        c1 == Call("get_wallet", request.wallet_id, r1)
        wallet == r1.value
        tx_request == [idempotency_key |-> idempotency_key(request, n + 1),
                       wallet_id |-> request.wallet_id,
                       blockchain |-> request.blockchain,
                       token_id |-> request.token_symbol,
                       destination_address |-> request.to_address,
                       amounts |-> <<request.amount>>,
                       fee_level |-> "MEDIUM"]
        r2 == sdk_create_developer_transaction_transfer(tx_request, env.o2, env.state)
        c2 == Call("create_developer_transaction_transfer", tx_request, r2)
        sent2 == Append(sent, tx_request)
    IN IF valid.raised THEN Done(valid, <<>>, n, sent)
       ELSE IF client # "ready" THEN Done(NotInitialized, <<>>, n, sent)
       ELSE IF r2.raised THEN Done(r2, <<c2>>, n + 1, sent2)
       ELSE IF r1.raised THEN Done(r1, <<c2, c1>>, n + 1, sent2)
       ELSE Done(Return(TransactionResponse(r2.value, wallet, request)), <<c2, c1>>, n + 1, sent2)

send_transaction(client, n, sent, request, env) ==
    LET valid == send_transaction_validate(request)
        r1 == sdk_get_wallet(request.wallet_id, env.o1, env.stored)
        c1 == Call("get_wallet", request.wallet_id, r1)
        wallet == r1.value
        tx_request == [idempotency_key |-> idempotency_key(request, n + 1),
                       wallet_id |-> request.wallet_id,
                       blockchain |-> request.blockchain,
                       token_id |-> request.token_symbol,
                       destination_address |-> request.to_address,
                       amounts |-> <<request.amount>>,
                       fee_level |-> "MEDIUM"]
        r2 == sdk_create_developer_transaction_transfer(tx_request, env.o2, env.state)
        c2 == Call("create_developer_transaction_transfer", tx_request, r2)
        sent2 == Append(sent, tx_request)
    IN IF valid.raised THEN Done(valid, <<>>, n, sent)
       ELSE IF client # "ready" THEN Done(NotInitialized, <<>>, n, sent)
       ELSE IF r1.raised THEN Done(r1, <<c1>>, n, sent)
       ELSE IF r2.raised THEN Done(r2, <<c1, c2>>, n + 1, sent2)
       ELSE Done(Return(TransactionResponse(r2.value, wallet, request)), <<c1, c2>>, n + 1, sent2)

\* TransactionsApi.get_transaction: stored is the transaction as the provider
\* holds it (its state, and its tx_hash once it has one)
sdk_get_transaction(transaction_id, outcome, stored) ==
    IF outcome # "ok" THEN ProviderError(outcome)
    ELSE Return([id |-> transaction_id, state |-> stored.state, tx_hash |-> stored.tx_hash])

StoredTransactions == {[state |-> "INITIATED", tx_hash |-> None],
                       [state |-> "COMPLETE", tx_hash |-> Some("0xhash")]}

\* get_transaction_status, lines 250-252: the except branch
get_transaction_status_except(e) == Return(None)

\* create_date and update_date, the provider's clock, are left out
get_transaction_status(client, n, sent, transaction_id, env) ==
    LET r == sdk_get_transaction(transaction_id, env.o1, env.stored)
        c == Call("get_transaction", transaction_id, r)
        transaction == r.value
    IN IF client # "ready" THEN Done(get_transaction_status_except(NotInitialized), <<>>, n, sent)
       ELSE IF r.raised THEN Done(get_transaction_status_except(r), <<c>>, n, sent)
       ELSE Done(Return(Some([transaction_id |-> transaction.id, state |-> transaction.state,
                              blockchain_tx_hash |-> transaction.tx_hash])), <<c>>, n, sent)

\* ------------------------------------------------------------------------
\* The logger calls of circle_client.py and wallet_service.py.  A record is its
\* level and the parts of its f-string: the fixed text and the interpolated
\* values, in order (the check mark that opens some messages is left out).
\* config is the CircleConfig the client holds; r is what the operation did.
\* ------------------------------------------------------------------------
LogRecord(level, parts) == [level |-> level, parts |-> parts]
\* the records emitted when cond holds
When(cond, records) == IF cond THEN records ELSE <<>>
\* str(e)
ErrorText(error) == error.msg
\* the i-th SDK call of r was made and answered
Answered(r, i) == Len(r.calls) >= i /\ ~r.calls[i].raised
Answer(r, i) == r.calls[i].value[r.calls[i].api]

\* initialize logging the secret it hands to the SDK
log_initialize_with_secret(config, sdk_ok) ==
    <<LogRecord("INFO", <<"Initializing Circle SDK client with ", config.entity_secret>>)>>
    \o (IF sdk_ok THEN <<LogRecord("INFO", <<"Circle SDK client initialized successfully">>)>>
        ELSE <<LogRecord("ERROR", <<"Failed to initialize Circle SDK client: ", "sdk error">>)>>)

\* CircleClient.initialize, lines 33, 47, 50
log_initialize(config, sdk_ok) ==
    <<LogRecord("INFO", <<"Initializing Circle SDK client...">>)>>
    \o (IF sdk_ok THEN <<LogRecord("INFO", <<"Circle SDK client initialized successfully">>)>>
        ELSE <<LogRecord("ERROR", <<"Failed to initialize Circle SDK client: ", "sdk error">>)>>)

\* create_wallet, lines 50, 69, 83, 95
log_create_wallet(config, request, r) ==
    <<LogRecord("INFO", <<"Creating wallet for user ", request.user_id, " on ", request.blockchain>>)>>
    \o When(Answered(r, 1),
            <<LogRecord("INFO", <<"Wallet set created/retrieved: ", Answer(r, 1).id>>)>>)
    \o When(Answered(r, 2),
            <<LogRecord("INFO", <<"Wallet created: ", Answer(r, 2)[1].id, ", address: ",
                                   Answer(r, 2)[1].address>>)>>)
    \o When(r.raised /\ ~create_wallet_validate(request).raised,
            <<LogRecord("ERROR", <<"Failed to create wallet: ", ErrorText(r.error)>>)>>)

\* get_wallet, line 120: the exception is the failed SDK call's, or the
\* RuntimeError of the wallets property when no call was made
log_get_wallet(config, wallet_id, r) ==
    IF r.calls = <<>>
    THEN <<LogRecord("ERROR", <<"Failed to get wallet ", wallet_id, ": ", ErrorText(NotInitialized.error)>>)>>
    ELSE When(r.calls[1].raised,
              <<LogRecord("ERROR", <<"Failed to get wallet ", wallet_id, ": ",
                                      ErrorText(r.calls[1].error)>>)>>)

\* get_balance, lines 136, 165
log_get_balance(config, wallet_id, r) ==
    <<LogRecord("INFO", <<"Getting balance for wallet ", wallet_id>>)>>
    \o When(r.raised,
            <<LogRecord("ERROR", <<"Failed to get balance for wallet ", wallet_id, ": ",
                                    ErrorText(r.error)>>)>>)

\* send_transaction, lines 182-185, 211, 226
log_send_transaction(config, request, r) ==
    <<LogRecord("INFO", <<"Sending ", request.amount, " ", request.token_symbol, " from wallet ",
                           request.wallet_id, " to ", request.to_address>>)>>
    \o When(Answered(r, 2), <<LogRecord("INFO", <<"Transaction created: ", Answer(r, 2).id>>)>>)
    \o When(r.raised /\ ~send_transaction_validate(request).raised,
            <<LogRecord("ERROR", <<"Failed to send transaction: ", ErrorText(r.error)>>)>>)

\* get_transaction_status, line 251
log_get_transaction_status(config, transaction_id, r) ==
    IF r.calls = <<>>
    THEN <<LogRecord("ERROR", <<"Failed to get transaction status ", transaction_id, ": ",
                                 ErrorText(NotInitialized.error)>>)>>
    ELSE When(r.calls[1].raised,
              <<LogRecord("ERROR", <<"Failed to get transaction status ", transaction_id, ": ",
                                      ErrorText(r.calls[1].error)>>)>>)

\* list_wallets, line 284, and list_wallet_sets, line 308
log_list_wallets(config, r) ==
    When(r.raised, <<LogRecord("ERROR", <<"Failed to list wallets: ", ErrorText(r.error)>>)>>)
log_list_wallet_sets(config, r) ==
    When(r.raised, <<LogRecord("ERROR", <<"Failed to list wallet sets: ", ErrorText(r.error)>>)>>)

\* The records of one call of the facade operation op
facade_log(config, op, request, r) ==
    CASE op = "create_wallet" -> log_create_wallet(config, request, r)
      [] op = "get_wallet" -> log_get_wallet(config, request, r)
      [] op = "get_balance" -> log_get_balance(config, request, r)
      [] op = "send_transaction" -> log_send_transaction(config, request, r)
      [] op = "get_transaction_status" -> log_get_transaction_status(config, request, r)
      [] op = "list_wallets" -> log_list_wallets(config, r)
      [] op = "list_wallet_sets" -> log_list_wallet_sets(config, r)

\* WalletsApi.list_wallets: filter is the wallet_set_id keyword, if one is passed
sdk_list_wallets(filter, outcome, wallets) ==
    IF outcome # "ok" THEN ProviderError(outcome) ELSE Return(wallets)

\* What WalletsApi.list_wallets can answer: no wallet, or one
ListedWallets ==
    {<<>>,
     <<[id |-> "w1", wallet_set_id |-> "ws1", address |-> "0xw1", blockchain |-> "ARC-TESTNET",
        account_type |-> "SCA", state |-> "LIVE"]>>}

\* list_wallets, lines 264-285
list_wallets(client, n, sent, wallet_set_id, env) ==
    LET filter == IF Truthy(wallet_set_id) THEN wallet_set_id ELSE None
        r == sdk_list_wallets(filter, env.o1, env.wallets)
        c == Call("list_wallets", filter, r)
        wallets == r.value
    IN IF client # "ready" THEN Done(NotInitialized, <<>>, n, sent)
       ELSE IF r.raised THEN Done(r, <<c>>, n, sent)
       ELSE Done(Return([i \in DOMAIN wallets |->
                           [wallet_id |-> wallets[i].id, wallet_set_id |-> wallets[i].wallet_set_id,
                            address |-> wallets[i].address, blockchain |-> wallets[i].blockchain,
                            account_type |-> wallets[i].account_type, state |-> wallets[i].state]]),
                 <<c>>, n, sent)

\* WalletSetsApi.list_wallet_sets
sdk_list_wallet_sets(outcome, wallet_sets) ==
    IF outcome # "ok" THEN ProviderError(outcome) ELSE Return(wallet_sets)

ListedWalletSets == {<<>>, <<[id |-> "ws1", name |-> "user-u1-wallets"]>>}

\* list_wallet_sets calling the provider a second time after a failure
list_wallet_sets_retrying(client, n, sent, env) ==
    LET r == sdk_list_wallet_sets(env.o1, env.wallet_sets)
        c == Call("list_wallet_sets", None, r)
        wallet_sets == r.value
    IN IF client # "ready" THEN Done(NotInitialized, <<>>, n, sent)
       ELSE IF r.raised THEN Done(r, <<c, c>>, n, sent)
       ELSE Done(Return([i \in DOMAIN wallet_sets |->
                           [wallet_set_id |-> wallet_sets[i].id, name |-> wallet_sets[i].name]]),
                 <<c>>, n, sent)

\* list_wallet_sets, lines 294-309 (create_date, the provider's clock, is left out)
list_wallet_sets(client, n, sent, env) ==
    LET r == sdk_list_wallet_sets(env.o1, env.wallet_sets)
        c == Call("list_wallet_sets", None, r)
        wallet_sets == r.value
    IN IF client # "ready" THEN Done(NotInitialized, <<>>, n, sent)
       ELSE IF r.raised THEN Done(r, <<c>>, n, sent)
       ELSE Done(Return([i \in DOMAIN wallet_sets |->
                           [wallet_set_id |-> wallet_sets[i].id, name |-> wallet_sets[i].name]]),
                 <<c>>, n, sent)

\* ------------------------------------------------------------------------
\* What the provider can do during one facade call.  An outcome that the call
\* never gets to (the second SDK call after the first one failed) is not
\* varied.
\* ------------------------------------------------------------------------
Echo(request) == [blockchain |-> request.blockchain, account_type |-> request.account_type]

CreateWalletEnvs(request) ==
    {[o1 |-> f, o2 |-> "ok", reported |-> Echo(request)] : f \in ProviderFaults}
    \cup {[o1 |-> "ok", o2 |-> f, reported |-> Echo(request)] : f \in ProviderFaults}
    \cup {[o1 |-> "ok", o2 |-> "ok", reported |-> rep] :
            rep \in [blockchain : {request.blockchain} \cup ProviderChainAliases,
                     account_type : AccountTypes]}

AnyStoredWallet == CHOOSE x \in StoredWallets : TRUE
AnyBalanceResponse == CHOOSE x \in BalanceResponses : TRUE
AnyStoredTransaction == CHOOSE x \in StoredTransactions : TRUE
AnyTransactionState == CHOOSE x \in NewTransactionStates : TRUE

GetWalletEnvs ==
    {[o1 |-> f, stored |-> AnyStoredWallet] : f \in LookupOutcomes \ {"ok"}}
    \cup {[o1 |-> "ok", stored |-> x] : x \in StoredWallets}

GetBalanceEnvs ==
    {[o1 |-> f, o2 |-> "ok", stored |-> AnyStoredWallet, balance_response |-> AnyBalanceResponse] :
        f \in LookupOutcomes \ {"ok"}}
    \cup {[o1 |-> "ok", o2 |-> f, stored |-> AnyStoredWallet, balance_response |-> AnyBalanceResponse] :
            f \in ProviderFaults}
    \cup {[o1 |-> "ok", o2 |-> "ok", stored |-> x, balance_response |-> b] :
            x \in StoredWallets, b \in BalanceResponses}

SendTransactionEnvs ==
    {[o1 |-> f, o2 |-> "ok", stored |-> AnyStoredWallet, state |-> AnyTransactionState] :
        f \in LookupOutcomes \ {"ok"}}
    \cup {[o1 |-> "ok", o2 |-> f, stored |-> AnyStoredWallet, state |-> AnyTransactionState] :
            f \in ProviderFaults}
    \cup {[o1 |-> "ok", o2 |-> "ok", stored |-> x, state |-> t] :
            x \in StoredWallets, t \in NewTransactionStates}

GetTransactionEnvs ==
    {[o1 |-> f, stored |-> AnyStoredTransaction] : f \in LookupOutcomes \ {"ok"}}
    \cup {[o1 |-> "ok", stored |-> x] : x \in StoredTransactions}

\* With a secret the provider does not know, the first call that carries the
\* entity-secret ciphertext does not answer.
CreateWalletEnvsFor(secret, request) ==
    IF Authorizes(secret) THEN CreateWalletEnvs(request)
    ELSE {e \in CreateWalletEnvs(request) : e.o1 # "ok"}

SendTransactionEnvsFor(secret) ==
    IF Authorizes(secret) THEN SendTransactionEnvs
    ELSE {e \in SendTransactionEnvs : e.o1 # "ok" \/ e.o2 # "ok"}

ListWalletsEnvs ==
    {[o1 |-> f, wallets |-> <<>>] : f \in ProviderFaults}
    \cup {[o1 |-> "ok", wallets |-> x] : x \in ListedWallets}

ListWalletSetsEnvs ==
    {[o1 |-> f, wallet_sets |-> <<>>] : f \in ProviderFaults}
    \cup {[o1 |-> "ok", wallet_sets |-> x] : x \in ListedWalletSets}

\* The provider's part is not varied in a call that never reaches the provider
EnvsOf(reaches_provider, envs) == IF reaches_provider THEN envs ELSE {CHOOSE e \in envs : TRUE}

\* ------------------------------------------------------------------------
\* config.py: BlockchainConfig.from_env.  The value of SUPPORTED_BLOCKCHAINS
\* is modelled as the pieces between its commas, a piece as its chunks, " "
\* being a run of blanks.
\* ------------------------------------------------------------------------
DefaultSupportedBlockchains == <<(<<"ARC-TESTNET">>), (<<"MATIC-AMOY">>), (<<"ARB-SEPOLIA">>)>>
\* the default, and a list that leaves out a key of the registry and names a
\* string that is no key
SupportedBlockchainsInputs ==
    {DefaultSupportedBlockchains, <<(<<"MATIC-AMOY">>), (<<" ", "DOGE-MAINNET", " ">>)>>}

RECURSIVE lstrip(_)
lstrip(piece) == IF piece # <<>> /\ Head(piece) = " " THEN lstrip(Tail(piece)) ELSE piece
RECURSIVE rstrip(_)
rstrip(piece) ==
    IF piece # <<>> /\ piece[Len(piece)] = " " THEN rstrip(SubSeq(piece, 1, Len(piece) - 1)) ELSE piece
RECURSIVE join(_)
join(piece) == IF piece = <<>> THEN "" ELSE Head(piece) \o join(Tail(piece))
\* str.strip
strip(piece) == join(rstrip(lstrip(piece)))

BlockchainConfig_from_env(supported_str) == [i \in 1..Len(supported_str) |-> strip(supported_str[i])]

\* ------------------------------------------------------------------------
\* api.py: dependencies and handlers
\* ------------------------------------------------------------------------
\* config.backend.api_key
BackendApiKey == "backend-key"
ApiKeyInputs == {None, Some(BackendApiKey), Some("wrong-key")}
Environments == {"development", "production"}

\* verify_api_key letting every request through in development
verify_api_key_open_in_development(x_api_key) ==
    IF environment = "development" THEN 0
    ELSE IF ~Truthy(x_api_key) \/ x_api_key.v # BackendApiKey THEN 401
    ELSE 0

\* verify_api_key: 0 lets the request through, 401 is the HTTPException
verify_api_key(x_api_key) ==
    IF environment = "development" /\ ~Truthy(x_api_key) THEN 0
    ELSE IF ~Truthy(x_api_key) \/ x_api_key.v # BackendApiKey THEN 401
    ELSE 0

\* circle_client.get_circle_client: the global client, whatever its state
get_circle_client ==
    IF circle_client = "None"
    THEN Raise("RuntimeError", "Circle client not initialized. Call init_circle_client() first.")
    ELSE Return(circle_client)

\* get_wallet_service, with WalletService.__init__: the first call that finds
\* a client constructs the facade, which keeps that client
get_wallet_service ==
    IF wallet_service = "None"
    THEN IF get_circle_client.raised
         THEN [result |-> get_circle_client, wallet_service |-> "None", constructed |-> constructed]
         ELSE [result |-> Return(None), wallet_service |-> "created",
               constructed |-> [constructed EXCEPT !.WalletService = @ + 1,
                                                   !.held = @ \cup {constructed.CircleClient}]]
    ELSE [result |-> Return(None), wallet_service |-> wallet_service, constructed |-> constructed]

\* A response of the service
Response(status, detail) == [status |-> status, detail |-> detail]

\* The dependencies of a handler, in the order of its parameters: the service,
\* then the API key.  status 0 means the handler body runs.
Dependencies(x_api_key) ==
    LET svc == get_wallet_service
    IN IF svc.result.raised
       THEN [response |-> Response(500, "An internal error occurred"), wallet_service |-> svc.wallet_service,
             constructed |-> svc.constructed]
       ELSE IF verify_api_key(x_api_key) # 0
            THEN [response |-> Response(401, "Invalid or missing API key"), wallet_service |-> svc.wallet_service,
                  constructed |-> svc.constructed]
            ELSE [response |-> Response(0, ""), wallet_service |-> svc.wallet_service,
                  constructed |-> svc.constructed]

\* The record kept of a facade call
FacadeCall(op, request, r) == [op |-> op, request |-> Box(op, request), raised |-> r.raised,
                               value |-> BoxResult(op, r), error |-> r.error, calls |-> r.calls]

Last(op, request, x_api_key, response, facade) ==
    [op |-> op, request |-> Box(op, request), x_api_key |-> x_api_key, status |-> response.status,
     detail |-> response.detail, facade |-> facade]

\* A request stopped by a dependency: the handler body does not run
Stopped(op, request, x_api_key, deps) ==
    /\ last' = Last(op, request, x_api_key, deps.response, <<>>)
    /\ log' = <<>>
    /\ wallet_service' = deps.wallet_service
    /\ constructed' = deps.constructed
    /\ UNCHANGED <<networks, supported_blockchains, environment, entity_secret, circle_client, uuid_count, transfers>>

\* The handler body ran one facade operation
Handled(op, request, x_api_key, deps, facade_op, r, response) ==
    /\ r.uuid_count <= MaxUuid
    /\ last' = Last(op, request, x_api_key, response, <<FacadeCall(facade_op, request, r)>>)
    /\ log' = facade_log([entity_secret |-> entity_secret], facade_op, request, r)
    /\ wallet_service' = deps.wallet_service
    /\ constructed' = deps.constructed
    /\ uuid_count' = r.uuid_count
    /\ transfers' = r.transfers
    /\ UNCHANGED <<networks, supported_blockchains, environment, entity_secret, circle_client>>

\* POST /wallets, lines 120-129
create_wallet_response(r) ==
    IF ~r.raised THEN Response(200, "")
    ELSE IF r.error.type = "ValueError" THEN Response(400, r.error.msg)
    ELSE Response(500, "Failed to create wallet")

POST_wallets ==
    \E request \in CreateWalletRequestModel, x_api_key \in ApiKeyInputs :
        LET deps == Dependencies(x_api_key)
        IN IF deps.response.status # 0
           THEN Stopped("POST /wallets", request, x_api_key, deps)
           ELSE \E env \in EnvsOf(circle_client = "ready" /\ ~create_wallet_validate(request).raised,
                                  CreateWalletEnvsFor(entity_secret, request)) :
                    LET r == create_wallet(circle_client, uuid_count, transfers, request, env)
                    IN Handled("POST /wallets", request, x_api_key, deps, "create_wallet", r,
                               create_wallet_response(r))

\* GET /wallets/{wallet_id}, lines 139-145
get_wallet_response(wallet_id, r) ==
    IF r.raised THEN Response(500, "An internal error occurred")
    ELSE IF r.value.is_none THEN Response(404, "Wallet " \o wallet_id \o " not found")
    ELSE Response(200, "")

GET_wallet ==
    \E wallet_id \in WalletIdInputs, x_api_key \in ApiKeyInputs :
        LET deps == Dependencies(x_api_key)
        IN IF deps.response.status # 0
           THEN Stopped("GET /wallets/{wallet_id}", wallet_id, x_api_key, deps)
           ELSE \E env \in EnvsOf(circle_client = "ready", GetWalletEnvs) :
                    LET r == get_wallet(circle_client, uuid_count, transfers, wallet_id, env)
                    IN Handled("GET /wallets/{wallet_id}", wallet_id, x_api_key, deps, "get_wallet", r,
                               get_wallet_response(wallet_id, r))

\* GET /wallets/{wallet_id}/balance, lines 155-162
get_wallet_balance_response(r) ==
    IF ~r.raised THEN Response(200, "") ELSE Response(500, "Failed to get wallet balance")

GET_wallet_balance ==
    \E wallet_id \in WalletIdInputs, x_api_key \in ApiKeyInputs :
        LET deps == Dependencies(x_api_key)
        IN IF deps.response.status # 0
           THEN Stopped("GET /wallets/{wallet_id}/balance", wallet_id, x_api_key, deps)
           ELSE \E env \in EnvsOf(circle_client = "ready", GetBalanceEnvs) :
                    LET r == get_balance(circle_client, uuid_count, transfers, wallet_id, env)
                    IN Handled("GET /wallets/{wallet_id}/balance", wallet_id, x_api_key, deps,
                               "get_balance", r, get_wallet_balance_response(r))

\* POST /transactions/send without its except ValueError branch
send_transaction_response_without_400(r) ==
    IF ~r.raised THEN Response(200, "") ELSE Response(500, "Failed to send transaction")

\* POST /transactions/send, lines 211-220
send_transaction_response(r) ==
    IF ~r.raised THEN Response(200, "")
    ELSE IF r.error.type = "ValueError" THEN Response(400, r.error.msg)
    ELSE Response(500, "Failed to send transaction")

POST_transactions_send ==
    \E request \in SendTransactionRequest, x_api_key \in ApiKeyInputs :
        LET deps == Dependencies(x_api_key)
        IN IF deps.response.status # 0
           THEN Stopped("POST /transactions/send", request, x_api_key, deps)
           ELSE \E env \in EnvsOf(circle_client = "ready" /\ ~send_transaction_validate(request).raised,
                                  SendTransactionEnvsFor(entity_secret)) :
                    LET r == send_transaction(circle_client, uuid_count, transfers, request, env)
                    IN Handled("POST /transactions/send", request, x_api_key, deps, "send_transaction", r,
                               send_transaction_response(r))

\* GET /transactions/{transaction_id}, lines 230-236
get_transaction_status_response(transaction_id, r) ==
    IF r.raised THEN Response(500, "An internal error occurred")
    ELSE IF r.value.is_none THEN Response(404, "Transaction " \o transaction_id \o " not found")
    ELSE Response(200, "")

GET_transaction ==
    \E transaction_id \in TransactionIdInputs, x_api_key \in ApiKeyInputs :
        LET deps == Dependencies(x_api_key)
        IN IF deps.response.status # 0
           THEN Stopped("GET /transactions/{transaction_id}", transaction_id, x_api_key, deps)
           ELSE \E env \in EnvsOf(circle_client = "ready", GetTransactionEnvs) :
                    LET r == get_transaction_status(circle_client, uuid_count, transfers,
                                                    transaction_id, env)
                    IN Handled("GET /transactions/{transaction_id}", transaction_id, x_api_key, deps,
                               "get_transaction_status", r,
                               get_transaction_status_response(transaction_id, r))

\* GET /wallets, lines 172-180
list_wallets_response(r) ==
    IF ~r.raised THEN Response(200, "") ELSE Response(500, "Failed to list wallets")

WalletSetIdInputs == {None, Some("ws1")}

GET_wallets ==
    \E wallet_set_id \in WalletSetIdInputs, x_api_key \in ApiKeyInputs :
        LET deps == Dependencies(x_api_key)
        IN IF deps.response.status # 0
           THEN Stopped("GET /wallets", wallet_set_id, x_api_key, deps)
           ELSE \E env \in EnvsOf(circle_client = "ready", ListWalletsEnvs) :
                    LET r == list_wallets(circle_client, uuid_count, transfers, wallet_set_id, env)
                    IN Handled("GET /wallets", wallet_set_id, x_api_key, deps, "list_wallets", r,
                               list_wallets_response(r))

\* GET /wallet-sets, lines 189-197
list_wallet_sets_response(r) ==
    IF ~r.raised THEN Response(200, "") ELSE Response(500, "Failed to list wallet sets")

GET_wallet_sets ==
    \E x_api_key \in ApiKeyInputs :
        LET deps == Dependencies(x_api_key)
        IN IF deps.response.status # 0
           THEN Stopped("GET /wallet-sets", None, x_api_key, deps)
           ELSE \E env \in EnvsOf(circle_client = "ready", ListWalletSetsEnvs) :
                    LET r == list_wallet_sets(circle_client, uuid_count, transfers, env)
                    IN Handled("GET /wallet-sets", None, x_api_key, deps, "list_wallet_sets", r,
                               list_wallet_sets_response(r))

\* ------------------------------------------------------------------------
\* circle_client.py: init_circle_client, as api.startup_event calls it.
\* sdk_ok: whether utils.init_developer_controlled_wallets_client and the three
\* Api constructors succeed.
\* ------------------------------------------------------------------------
\* init_circle_client without the test of the global: every call constructs
\* and initializes a client
init_circle_client_reconstructing ==
    \E sdk_ok \in BOOLEAN :
        /\ circle_client' = IF sdk_ok THEN "ready" ELSE "uninit"
        /\ last' = Last("init_circle_client", None, None,
                        Response(0, IF ~sdk_ok THEN "raised" ELSE "returned"), <<>>)
        /\ log' = log_initialize([entity_secret |-> entity_secret], sdk_ok)
        /\ constructed' = [constructed EXCEPT !.CircleClient = @ + 1, !.initialize = @ + 1]
        /\ UNCHANGED <<networks, supported_blockchains, environment, entity_secret, wallet_service, uuid_count, transfers>>

init_circle_client ==
    \E sdk_ok \in BOOLEAN :
        /\ circle_client' = IF circle_client = "None"
                            THEN (IF sdk_ok THEN "ready" ELSE "uninit")
                            ELSE circle_client
        /\ last' = Last("init_circle_client", None, None,
                        Response(0, IF circle_client = "None" /\ ~sdk_ok THEN "raised" ELSE "returned"), <<>>)
        /\ log' = When(circle_client = "None", log_initialize([entity_secret |-> entity_secret], sdk_ok))
        /\ constructed' = IF circle_client = "None"
                          THEN [constructed EXCEPT !.CircleClient = @ + 1, !.initialize = @ + 1]
                          ELSE constructed
        /\ UNCHANGED <<networks, supported_blockchains, environment, entity_secret, wallet_service, uuid_count, transfers>>

\* ------------------------------------------------------------------------
\* GET /health: circle_client.CircleClient.health_check and api.health_check.
\* The handler has no dependency.
\* ------------------------------------------------------------------------
\* health_check answering True without a call of the provider
CircleClient_health_check_unprobed(client, n, sent, env) == Done(Return(TRUE), <<>>, n, sent)

\* CircleClient.health_check: the wallet_sets property raises on a client
\* whose handles are unset, and the except branch turns every exception into
\* False
CircleClient_health_check(client, n, sent, env) ==
    LET r == sdk_list_wallet_sets(env.o1, env.wallet_sets)
        c == Call("list_wallet_sets", None, r)
    IN IF client # "ready" THEN Done(Return(FALSE), <<>>, n, sent)
       ELSE IF r.raised THEN Done(Return(FALSE), <<c>>, n, sent)
       ELSE Done(Return(TRUE), <<c>>, n, sent)

\* line 81: the record of the except branch of CircleClient.health_check
log_health_check(config, client, env) ==
    LET r == sdk_list_wallet_sets(env.o1, env.wallet_sets)
        e == IF client # "ready" THEN NotInitialized ELSE r
    IN When(client # "None" /\ e.raised,
            <<LogRecord("ERROR", <<"Circle API health check failed: ", ErrorText(e.error)>>)>>)

\* models.HealthCheckResponse, without its timestamp
HealthCheckResponse(circle_status) ==
    [status |-> IF circle_status = "connected" THEN "healthy" ELSE "degraded", circle_api |-> circle_status]

\* api.health_check, lines 86-96
health_check(n, sent, env) ==
    LET client == get_circle_client
        ok == CircleClient_health_check(circle_client, n, sent, env)
        circle_status == IF client.raised THEN "error"
                         ELSE IF ok.value THEN "connected" ELSE "disconnected"
    IN Done(Return(HealthCheckResponse(circle_status)), IF client.raised THEN <<>> ELSE ok.calls, n, sent)

\* What the provider can do during a health check; what it lists is not read
HealthCheckEnvs ==
    {e \in ListWalletSetsEnvs : e.o1 # "ok"}
    \cup {CHOOSE e \in ListWalletSetsEnvs : e.o1 = "ok"}

GET_health ==
    \E x_api_key \in ApiKeyInputs, env \in EnvsOf(circle_client = "ready", HealthCheckEnvs) :
        /\ last' = Last("GET /health", None, x_api_key, Response(200, ""),
                        <<FacadeCall("health_check", None, health_check(uuid_count, transfers, env))>>)
        /\ log' = log_health_check([entity_secret |-> entity_secret], circle_client, env)
        /\ UNCHANGED <<networks, supported_blockchains, environment, entity_secret, circle_client,
                       wallet_service, uuid_count, transfers, constructed>>

\* ------------------------------------------------------------------------
\* api.py: the network endpoints.  Their one dependency is verify_api_key.
\* ------------------------------------------------------------------------
\* NetworkInfo whose supported flag tells whether the chain is in the registry
NetworkInfo_supported_if_registered(chain_id, network_config) ==
    [chain_id |-> network_config.chain_id, name |-> network_config.name,
     is_testnet |-> network_config.is_testnet, native_currency |-> network_config.native_currency,
     supported |-> is_supported_network(chain_id).value]

\* NetworkInfo(...) as both handlers build it, lines 250-258 and 274-280
NetworkInfo(chain_id, network_config) ==
    [chain_id |-> network_config.chain_id, name |-> network_config.name,
     is_testnet |-> network_config.is_testnet, native_currency |-> network_config.native_currency,
     supported |-> \E i \in 1..Len(supported_blockchains) : supported_blockchains[i] = chain_id]

\* A request to a network endpoint: stopped by the key check, or answered by
\* the handler body, whose result is r
NetworkEndpoint(op, request, x_api_key, handler, r, response) ==
    /\ last' = IF verify_api_key(x_api_key) # 0
               THEN Last(op, request, x_api_key, Response(401, "Invalid or missing API key"), <<>>)
               ELSE Last(op, request, x_api_key, response,
                         <<FacadeCall(handler, request, Done(r, <<>>, uuid_count, transfers))>>)
    /\ log' = <<>>
    /\ UNCHANGED <<networks, supported_blockchains, environment, entity_secret, circle_client,
                   wallet_service, uuid_count, transfers, constructed>>

\* GET /networks.  The response lists the entries in the order of the dict;
\* the list is modelled as the function from chain id to entry.
list_supported_networks ==
    LET all == list_networks(FALSE, FALSE).value
    IN Return([chain_id \in DOMAIN all |-> NetworkInfo(chain_id, all[chain_id])])

GET_networks ==
    \E x_api_key \in ApiKeyInputs :
        NetworkEndpoint("GET /networks", None, x_api_key, "list_supported_networks",
                        list_supported_networks, Response(200, ""))

\* GET /networks/{chain_id}
get_network_info(chain_id) ==
    LET network_config == get_network(chain_id)
    IN IF network_config.raised THEN network_config
       ELSE Return(NetworkInfo(chain_id, network_config.value))

get_network_info_response(chain_id, r) ==
    IF r.raised THEN Response(404, "Network " \o chain_id \o " not found") ELSE Response(200, "")

\* a chain of the default list, a key of the registry outside it, and a
\* string that is no key
NetworkIdInputs == {"ARC-TESTNET", "ETH-MAINNET", "DOGE-MAINNET"}

GET_network_info ==
    \E chain_id \in NetworkIdInputs, x_api_key \in ApiKeyInputs :
        NetworkEndpoint("GET /networks/{chain_id}", chain_id, x_api_key, "get_network_info",
                        get_network_info(chain_id),
                        get_network_info_response(chain_id, get_network_info(chain_id)))

\* Direct calls of get_circle_client and of get_wallet_service
Call_get_circle_client ==
    /\ last' = Last("get_circle_client", None, None,
                    Response(0, IF get_circle_client.raised THEN "raised" ELSE "returned"), <<>>)
    /\ log' = <<>>
    /\ UNCHANGED <<networks, supported_blockchains, environment, entity_secret, circle_client, wallet_service, uuid_count,
                   transfers, constructed>>

Call_get_wallet_service ==
    /\ last' = Last("get_wallet_service", None, None,
                    Response(0, IF get_wallet_service.result.raised THEN "raised" ELSE "returned"), <<>>)
    /\ log' = <<>>
    /\ wallet_service' = get_wallet_service.wallet_service
    /\ constructed' = get_wallet_service.constructed
    /\ UNCHANGED <<networks, supported_blockchains, environment, entity_secret, circle_client, uuid_count, transfers>>

\* ------------------------------------------------------------------------
\* Direct calls of the registry functions of networks.py
\* ------------------------------------------------------------------------
\* list_networks filtering the module dict in place
RegistryCall_filtering_in_place(op, request, r) ==
    /\ last' = Last(op, request, None, Response(0, ""),
                    <<FacadeCall(op, request, Done(r, <<>>, uuid_count, transfers))>>)
    /\ log' = <<>>
    /\ networks' = IF op = "list_networks" THEN r.value ELSE networks
    /\ UNCHANGED <<supported_blockchains, environment, entity_secret, circle_client, wallet_service,
                   uuid_count, transfers, constructed>>

RegistryCall(op, request, r) ==
    /\ last' = Last(op, request, None, Response(0, ""),
                    <<FacadeCall(op, request, Done(r, <<>>, uuid_count, transfers))>>)
    /\ log' = <<>>
    /\ UNCHANGED <<networks, supported_blockchains, environment, entity_secret, circle_client, wallet_service, uuid_count,
                   transfers, constructed>>

Call_get_network ==
    \E chain_id \in RegistryInputs : RegistryCall("get_network", chain_id, get_network(chain_id))

Call_is_supported_network ==
    \E chain_id \in RegistryInputs :
        RegistryCall("is_supported_network", chain_id, is_supported_network(chain_id))

Call_list_networks ==
    \E testnet_only \in BOOLEAN, mainnet_only \in BOOLEAN :
        RegistryCall("list_networks", [testnet_only |-> testnet_only, mainnet_only |-> mainnet_only],
                     list_networks(testnet_only, mainnet_only))

\* ------------------------------------------------------------------------
\* Specification
\* ------------------------------------------------------------------------
Init ==
    /\ networks = NETWORKS
    /\ supported_blockchains = BlockchainConfig_from_env(DefaultSupportedBlockchains)
    /\ environment \in Environments
    /\ entity_secret \in EntitySecrets
    /\ circle_client = "None"
    /\ wallet_service = "None"
    /\ uuid_count = 0
    /\ transfers = <<>>
    /\ constructed = [CircleClient |-> 0, initialize |-> 0, WalletService |-> 0, held |-> {}]
    /\ last = Last("start", None, None, Response(0, ""), <<>>)
    /\ log = <<>>

Next ==
    \/ init_circle_client
    \/ Call_get_circle_client
    \/ Call_get_wallet_service
    \/ POST_wallets
    \/ GET_wallet
    \/ GET_wallet_balance
    \/ POST_transactions_send
    \/ GET_transaction
    \/ GET_wallets
    \/ GET_wallet_sets
    \/ GET_health
    \/ GET_networks
    \/ GET_network_info
    \/ Call_get_network
    \/ Call_is_supported_network
    \/ Call_list_networks

Spec == Init /\ [][Next]_vars

\* A production deployment that holds the registered entity secret and whose
\* SUPPORTED_BLOCKCHAINS is the default or is set
InitConfigured ==
    /\ networks = NETWORKS
    /\ \E supported_str \in SupportedBlockchainsInputs :
           supported_blockchains = BlockchainConfig_from_env(supported_str)
    /\ environment = "production"
    /\ entity_secret = RegisteredEntitySecret
    /\ circle_client = "None"
    /\ wallet_service = "None"
    /\ uuid_count = 0
    /\ transfers = <<>>
    /\ constructed = [CircleClient |-> 0, initialize |-> 0, WalletService |-> 0, held |-> {}]
    /\ last = Last("start", None, None, Response(0, ""), <<>>)
    /\ log = <<>>

SpecConfigured == InitConfigured /\ [][Next]_vars

\* ------------------------------------------------------------------------
\* Properties
\* ------------------------------------------------------------------------
\* The last call ran the facade operation op
FacadeRan(op) == Len(last.facade) = 1 /\ last.facade[1].op = op
F == last.facade[1]
\* its request, its return value, and the request and the answer of its i-th SDK call
FReq == F.request[F.op]
FVal == F.value[F.op]
CallReq(i) == F.calls[i].request[F.calls[i].api]
CallVal(i) == F.calls[i].value[F.calls[i].api]

UnsupportedNetworkError(chain_id) == [type |-> "ValueError", msg |-> "Unsupported blockchain: " \o chain_id]

\* C1: CreateWallet with a chain id that is no key of the registry fails with
\* the unsupported-network ValueError and makes no provider call, whatever
\* the other fields of the request are.
C1_CreateWalletUnsupportedChain ==
    (FacadeRan("create_wallet") /\ FReq.blockchain \notin DOMAIN NETWORKS)
        => /\ F.raised
           /\ F.error = UnsupportedNetworkError(FReq.blockchain)
           /\ F.calls = <<>>
           /\ last.status = 400

C1_Witness ==
    /\ FacadeRan("create_wallet")
    /\ FReq.blockchain = "DOGE-MAINNET"
    /\ FReq.account_type = "EOA"
    /\ ~FReq.wallet_set_name.is_none
    /\ circle_client = "ready"
    /\ F.raised

\* C2: SendTransaction with a chain id that is no key of the registry fails
\* with the error CreateWallet raises for that chain id, and makes neither the
\* wallet lookup nor the create-transfer call.
C2_SendTransactionUnsupportedChain ==
    (FacadeRan("send_transaction") /\ FReq.blockchain \notin DOMAIN NETWORKS)
        => /\ F.raised
           /\ \A cr \in CreateWalletRequestModel : \A env \in CreateWalletEnvs(cr) :
                cr.blockchain = FReq.blockchain
                    => LET c == create_wallet("ready", 0, <<>>, cr, env)
                       IN c.raised /\ c.error = F.error
           /\ F.calls = <<>>
           /\ last.status = 400

C2_Witness ==
    /\ FacadeRan("send_transaction")
    /\ FReq.blockchain = "DOGE-MAINNET"
    /\ circle_client = "ready"
    /\ F.raised
    /\ F.error.type = "ValueError"

\* The id the last lookup asked for is one the provider does not know
LookupOfUnknownId ==
    /\ Len(F.calls) = 1
    /\ F.calls[1].raised
    /\ F.calls[1].error = [type |-> "ProviderRejected", msg |-> "not found"]

\* C3: GetWallet and GetTransactionStatus with an id the provider does not
\* know return None and do not raise; the HTTP response is then 404.
C3_UnknownIdIsAbsence ==
    ((FacadeRan("get_wallet") \/ FacadeRan("get_transaction_status")) /\ LookupOfUnknownId)
        => /\ ~F.raised
           /\ FVal.is_none
           /\ last.status = 404

C3_Witness ==
    /\ FacadeRan("get_wallet")
    /\ LookupOfUnknownId
    /\ FReq = "w2"
    /\ last.status = 404

\* The SDK call of the last lookup failed for a reason other than an unknown id
LookupFailedOtherwise ==
    /\ Len(F.calls) = 1
    /\ F.calls[1].raised
    /\ F.calls[1].error.type \in ProviderFaults
    /\ F.calls[1].error.msg # "not found"

\* C4: a failure of the provider call inside GetWallet or GetTransactionStatus
\* other than "no such id" (provider unavailable, authentication failed, a
\* rejected request) is raised to the caller unchanged and is not reported as
\* not-found.
C4_OtherFailuresPropagate ==
    ((FacadeRan("get_wallet") \/ FacadeRan("get_transaction_status")) /\ LookupFailedOtherwise)
        => /\ F.raised
           /\ F.error = F.calls[1].error
           /\ last.status # 404

\* C5: the idempotency keys of the create-transfer requests sent so far are
\* pairwise different, and the request the last SendTransaction sent is the
\* last of them.
C5_FreshIdempotencyKeys ==
    /\ \A i, j \in DOMAIN transfers :
          i # j => transfers[i].idempotency_key # transfers[j].idempotency_key
    /\ (FacadeRan("send_transaction") /\ Len(F.calls) = 2)
          => /\ transfers # <<>>
             /\ transfers[Len(transfers)] = CallReq(2)

\* two create-transfer requests with the same arguments were sent
C5_Witness ==
    /\ Len(transfers) = 2
    /\ [transfers[1] EXCEPT !.idempotency_key = ""] = [transfers[2] EXCEPT !.idempotency_key = ""]
    /\ FacadeRan("send_transaction")
    /\ ~F.raised

\* C6: get_network of a key of the registry returns the record of that key,
\* whose chain_id is the key; of any other chain id it raises ValueError.
C6_LookupReturnsQueriedKey ==
    FacadeRan("get_network")
        => IF FReq \in DOMAIN NETWORKS
           THEN ~F.raised /\ FVal.chain_id = FReq /\ FVal = NETWORKS[FReq]
           ELSE F.raised /\ F.error.type = "ValueError"

C6_Witness ==
    /\ FacadeRan("get_network")
    /\ FReq = "ETH-MAINNET"
    /\ ~F.raised
    /\ FVal.name = "Ethereum Mainnet"
    /\ ~FVal.is_testnet
    /\ FVal.native_currency = "ETH"

Testnets == {k \in DOMAIN NETWORKS : NETWORKS[k].is_testnet}
Mainnets == {k \in DOMAIN NETWORKS : ~NETWORKS[k].is_testnet}

\* C7: list_networks(testnet_only) returns exactly the entries whose testnet
\* flag is set, list_networks(mainnet_only) exactly the others; the two are
\* disjoint and together they are what list_networks() returns.
C7_ListPartitionsRegistry ==
    FacadeRan("list_networks")
        => LET t == list_networks(TRUE, FALSE).value
               m == list_networks(FALSE, TRUE).value
               all == list_networks(FALSE, FALSE).value
           IN /\ ~F.raised
              /\ (FReq.testnet_only /\ ~FReq.mainnet_only)
                    => FVal = Restrict(NETWORKS, Testnets)
              /\ (~FReq.testnet_only /\ FReq.mainnet_only)
                    => /\ FVal = Restrict(NETWORKS, Mainnets)
                       /\ DOMAIN FVal \cap DOMAIN t = {}
                       /\ DOMAIN FVal \cup DOMAIN t = DOMAIN all
                       /\ \A k \in DOMAIN FVal : FVal[k] = all[k]
              /\ (~FReq.testnet_only /\ ~FReq.mainnet_only)
                    => /\ FVal = NETWORKS
                       /\ DOMAIN t \cap DOMAIN m = {}
                       /\ DOMAIN t \cup DOMAIN m = DOMAIN FVal
                       /\ \A k \in DOMAIN t : t[k] = FVal[k]
                       /\ \A k \in DOMAIN m : m[k] = FVal[k]

C7_Witness ==
    /\ FacadeRan("list_networks")
    /\ ~FReq.testnet_only
    /\ FReq.mainnet_only
    /\ Cardinality(DOMAIN FVal) = 6

\* C8: is_supported_network does not raise, and it returns true exactly for
\* the chain ids for which get_network returns.
C8_IsSupportedAgreesWithLookup ==
    FacadeRan("is_supported_network")
        => /\ ~F.raised
           /\ FVal = ~get_network(FReq).raised

C8_Witness ==
    /\ FacadeRan("is_supported_network")
    /\ FReq = "ETH-MAINNET"
    /\ FVal

\* The last call was a CreateWallet that returned
CreateWalletReturned == FacadeRan("create_wallet") /\ ~F.raised

\* The ids of a returned CreateWallet are the provider's: the wallet id and
\* address of the wallet the create-wallet call answered with, and the id of
\* the wallet set the create-wallet-set call of the same facade call answered
\* with, which is the set the wallet was asked in
ReturnsProviderIds ==
    /\ Len(F.calls) = 2
    /\ F.calls[1].api = "create_wallet_set"
    /\ F.calls[2].api = "create_wallet"
    /\ FVal.wallet_id = CallVal(2)[1].id
    /\ FVal.address = CallVal(2)[1].address
    /\ FVal.wallet_set_id = CallVal(1).id
    /\ CallReq(2).wallet_set_id = CallVal(1).id

\* C9 as claimed: a successful CreateWallet returns the provider's wallet id
\* and address, the id of the wallet set created in the same call, and the
\* chain and account type chosen in the request.
C9_ReturnsRequestedChainAndType ==
    CreateWalletReturned
        => /\ ReturnsProviderIds
           /\ FVal.blockchain = FReq.blockchain
           /\ FVal.account_type = FReq.account_type

\* C9 as amended: a successful CreateWallet returns the wallet id, address,
\* chain and account type the provider reports for the new wallet, and the id
\* of the wallet set created in the same call; chain and account type are
\* those of the request when the provider reports the wallet as requested.
C9_ReturnsProviderReportedWallet ==
    CreateWalletReturned
        => /\ ReturnsProviderIds
           /\ FVal.blockchain = CallVal(2)[1].blockchain
           /\ FVal.account_type = CallVal(2)[1].account_type
           /\ (/\ CallVal(2)[1].blockchain = CallReq(2).blockchains[1]
               /\ CallVal(2)[1].account_type = CallReq(2).account_type)
                 => /\ FVal.blockchain = FReq.blockchain
                    /\ FVal.account_type = FReq.account_type

\* a wallet asked on ARC-TESTNET as SCA that the provider reports otherwise
C9_Witness ==
    /\ CreateWalletReturned
    /\ FReq.blockchain = "ARC-TESTNET"
    /\ FReq.account_type = "SCA"
    /\ FVal.wallet_id = "w1"
    /\ FVal.blockchain = "EVM-TESTNET"
    /\ last.status = 200

\* The provider reports no token balances: no data, no token_balances field,
\* or an empty list
NoTokenBalances(balance_response) ==
    \/ ~balance_response.has_data
    \/ ~balance_response.has_token_balances
    \/ /\ ~balance_response.token_balances.is_none
       /\ balance_response.token_balances.v = <<>>

\* C10: GetBalance of an existing wallet for which the provider reports no
\* token balances (an empty list, or a response without the field) returns
\* an empty balances list with the wallet's address and chain.
C10_NoTokenBalancesIsEmptyList ==
    (/\ FacadeRan("get_balance")
     /\ Len(F.calls) = 2
     /\ ~F.calls[1].raised
     /\ ~F.calls[2].raised
     /\ NoTokenBalances(CallVal(2)))
        => /\ ~F.raised
           /\ FVal.balances = <<>>
           /\ FVal.address = CallVal(1).address
           /\ FVal.blockchain = CallVal(1).blockchain
           /\ last.status = 200

C10_Witness ==
    /\ FacadeRan("get_balance")
    /\ Len(F.calls) = 2
    /\ ~F.calls[2].raised
    /\ CallVal(2).has_data
    /\ ~CallVal(2).has_token_balances
    /\ ~F.raised
    /\ FVal.balances = <<>>
    /\ FVal.address = "0xw1"

\* C11: when the wallet lookup or the token-balance call of GetBalance fails
\* (an unknown wallet id included), GetBalance raises that call's error
\* unchanged and returns nothing; a failed lookup is the only call made.
C11_GetBalanceFailuresPropagate ==
    FacadeRan("get_balance")
        => \A i \in DOMAIN F.calls :
              F.calls[i].raised
                  => /\ F.raised
                     /\ F.error = F.calls[i].error
                     /\ F.error.type \in ProviderFaults
                     /\ i = Len(F.calls)
                     /\ (F.calls[1].raised => Len(F.calls) = 1)
                     /\ last.status \notin {200, 404}

\* the lookup answered and the token-balance call failed
C11_Witness ==
    /\ FacadeRan("get_balance")
    /\ Len(F.calls) = 2
    /\ F.calls[2].api = "get_wallet_token_balance"
    /\ F.calls[2].raised
    /\ F.raised
    /\ F.error.type = "ProviderUnavailable"
    /\ last.status = 500

\* The last call was a request to an endpoint that invokes a facade operation
Endpoints == {"POST /wallets", "GET /wallets/{wallet_id}", "GET /wallets/{wallet_id}/balance",
              "GET /wallets", "GET /wallet-sets", "POST /transactions/send",
              "GET /transactions/{transaction_id}"}
\* its X-API-Key header is missing, or differs from the configured key
KeyMissing == ~Truthy(last.x_api_key)
KeyDiffers == Truthy(last.x_api_key) /\ last.x_api_key.v # BackendApiKey
\* the key check is bypassed: development, and the request carries no key
KeyCheckBypassed == environment = "development" /\ KeyMissing

FacadeOperations == {"create_wallet", "get_wallet", "get_balance", "list_wallets", "list_wallet_sets",
                     "send_transaction", "get_transaction_status"}

\* C13: at the HTTP boundary an unsupported-network failure of POST /wallets
\* or POST /transactions/send is answered 400, an absence returned to
\* GET /wallets/{id} or GET /transactions/{id} is answered 404, and a
\* provider-unavailable or provider-auth failure that a facade operation
\* raises is answered 500.
C13_StatusOfFailures ==
    /\ ((FacadeRan("create_wallet") \/ FacadeRan("send_transaction"))
          /\ F.raised /\ F.error = UnsupportedNetworkError(FReq.blockchain))
            => last.status = 400
    /\ ((FacadeRan("get_wallet") \/ FacadeRan("get_transaction_status"))
          /\ ~F.raised /\ FVal.is_none)
            => last.status = 404
    /\ (Len(last.facade) = 1 /\ F.op \in FacadeOperations
          /\ F.raised /\ F.error.type \in {"ProviderUnavailable", "ProviderAuthFailed"})
            => last.status = 500

\* an unsupported chain in POST /transactions/send
C13_Witness ==
    /\ FacadeRan("send_transaction")
    /\ last.op = "POST /transactions/send"
    /\ F.raised
    /\ F.error = UnsupportedNetworkError("DOGE-MAINNET")
    /\ last.status = 400
    /\ last.detail = "Unsupported blockchain: DOGE-MAINNET"

\* C14: when the provider rejects the request of CreateWallet,
\* SendTransaction, GetBalance or a list operation (ProviderRejected), the
\* HTTP response is a client error (4xx), not a server error.
C14_ProviderRejectedIsClientError ==
    (/\ Len(last.facade) = 1
     /\ F.op \in {"create_wallet", "send_transaction", "get_balance", "list_wallets", "list_wallet_sets"}
     /\ F.raised
     /\ F.error.type = "ProviderRejected")
        => last.status \in 400..499

\* What the last facade call can do, from the same state and on the same
\* request, in a run whose entity secret is secret
RunsOf(secret) ==
    CASE F.op = "create_wallet" ->
           {create_wallet(circle_client, 0, <<>>, FReq, env) : env \in CreateWalletEnvsFor(secret, FReq)}
      [] F.op = "get_wallet" ->
           {get_wallet(circle_client, 0, <<>>, FReq, env) : env \in GetWalletEnvs}
      [] F.op = "get_balance" ->
           {get_balance(circle_client, 0, <<>>, FReq, env) : env \in GetBalanceEnvs}
      [] F.op = "send_transaction" ->
           {send_transaction(circle_client, 0, <<>>, FReq, env) : env \in SendTransactionEnvsFor(secret)}
      [] F.op = "get_transaction_status" ->
           {get_transaction_status(circle_client, 0, <<>>, FReq, env) : env \in GetTransactionEnvs}
      [] F.op = "list_wallets" ->
           {list_wallets(circle_client, 0, <<>>, FReq, env) : env \in ListWalletsEnvs}
      [] F.op = "list_wallet_sets" ->
           {list_wallet_sets(circle_client, 0, <<>>, env) : env \in ListWalletSetsEnvs}

\* The log outputs the last call can produce in a run whose entity secret is secret
LogsOf(secret) ==
    IF last.op = "init_circle_client"
    THEN {<<>>} \cup {log_initialize([entity_secret |-> secret], sdk_ok) : sdk_ok \in BOOLEAN}
    ELSE IF Len(last.facade) = 1 /\ F.op \in FacadeOperations
         THEN {facade_log([entity_secret |-> secret], F.op, FReq, r) : r \in RunsOf(secret)}
         ELSE IF Len(last.facade) = 1 /\ F.op = "health_check"
              THEN {log_health_check([entity_secret |-> secret], circle_client, env) : env \in HealthCheckEnvs}
              ELSE {<<>>}

\* The provider can answer the SDK calls of the last facade call as it did
\* to a run whose entity secret is secret
SameOutcomesPossible(secret) ==
    \/ Authorizes(secret)
    \/ ~(Len(last.facade) = 1 /\ F.op \in {"create_wallet", "send_transaction"})
    \/ F.op = "create_wallet" /\ ~Answered(F, 1)
    \/ F.op = "send_transaction" /\ ~Answered(F, 2)

\* C15 as claimed: the log output of client initialization and of every
\* operation does not depend on the entity secret: what this run logged, a
\* run with any other entity secret on the same input logs too.
C15_LogIndependentOfSecret == \A secret \in EntitySecrets : log \in LogsOf(secret)

\* C15 as amended: no part of a log record is the entity secret, and the log
\* depends on the secret only through the outcomes of the SDK calls: a run
\* with any other entity secret in which the provider answers the calls the
\* same way logs the same.
C15_LogNeverHoldsSecret ==
    /\ \A i \in DOMAIN log : \A j \in DOMAIN log[i].parts : log[i].parts[j] \notin EntitySecrets
    /\ \A secret \in EntitySecrets : SameOutcomesPossible(secret) => log \in LogsOf(secret)

\* the failure path of a create wallet set carrying a secret the provider
\* does not know, after an initialization that logged
C15_Witness ==
    /\ entity_secret # RegisteredEntitySecret
    /\ circle_client = "ready"
    /\ FacadeRan("create_wallet")
    /\ F.raised
    /\ F.error.type = "ProviderAuthFailed"
    /\ Len(log) = 2
    /\ log[2] = LogRecord("ERROR", <<"Failed to create wallet: ", "provider error">>)

\* C16: a CreateWallet that returns, on a supported chain, made exactly two
\* provider calls: one create-wallet-set, then one create-wallet, and no
\* find or list call; the create-wallet request asks for one wallet (count 1)
\* on the requested chain, of the requested account type, in the wallet set
\* whose id the create-wallet-set call returned.
C16_OneSetThenOneWallet ==
    (CreateWalletReturned /\ FReq.blockchain \in DOMAIN NETWORKS)
        => /\ Len(F.calls) = 2
           /\ F.calls[1].api = "create_wallet_set" /\ ~F.calls[1].raised
           /\ F.calls[2].api = "create_wallet" /\ ~F.calls[2].raised
           /\ CallReq(2).count = 1
           /\ CallReq(2).blockchains = <<FReq.blockchain>>
           /\ CallReq(2).account_type = FReq.account_type
           /\ CallReq(2).wallet_set_id = CallVal(1).id

\* an EOA wallet in a named set
C16_Witness ==
    /\ CreateWalletReturned
    /\ FReq.account_type = "EOA"
    /\ FReq.wallet_set_name = Some("main")
    /\ CallReq(1).name = "main"
    /\ CallReq(2).wallet_set_id = "ws1"
    /\ last.status = 200

\* In the last CreateWallet the wallet set was created and the create-wallet
\* call then failed
WalletSetOrphaned ==
    /\ FacadeRan("create_wallet")
    /\ Answered(F, 1)
    /\ \E i \in 2..Len(F.calls) : F.calls[i].raised

\* C17: when the create-wallet-set call of CreateWallet succeeds and the
\* create-wallet call fails, CreateWallet raises that error unchanged; the
\* failed call is the last provider call (nothing is deleted, rolled back or
\* retried), so the wallet set the first call created stays as it is.
C17_NoCompensation ==
    WalletSetOrphaned
        => /\ F.raised
           /\ Len(F.calls) = 2
           /\ F.calls[1].api = "create_wallet_set"
           /\ F.calls[2].api = "create_wallet"
           /\ F.error = F.calls[2].error
           /\ F.error.type \in ProviderFaults
           /\ last.status = 500

C17_Witness ==
    /\ WalletSetOrphaned
    /\ CallVal(1).id = "ws1"
    /\ CallVal(1).name = "user-u2-wallets"
    /\ F.error.type = "ProviderUnavailable"
    /\ uuid_count = 1

\* The name the last CreateWallet sends when the request supplies none
DefaultSetName(user_id) ==
    wallet_set_name_of([user_id |-> user_id, blockchain |-> "ARC-TESTNET", account_type |-> "SCA",
                        wallet_set_name |-> None])

\* the default is a function of the user id alone, different for different ids
DefaultIsPerUser ==
    /\ \A r \in CreateWalletRequestModel :
          r.wallet_set_name.is_none => wallet_set_name_of(r) = DefaultSetName(r.user_id)
    /\ \A u1, u2 \in UserIds : u1 # u2 => DefaultSetName(u1) # DefaultSetName(u2)

\* the last CreateWallet sent a create-wallet-set request
SetNameSent == FacadeRan("create_wallet") /\ Len(F.calls) >= 1

\* C18 as claimed: the wallet-set name CreateWallet sends is the name of the
\* request whenever the request supplies one, and otherwise a default that
\* is a function of the user id alone and differs between user ids.
C18_SuppliedNameOrDefault ==
    SetNameSent
        => /\ F.calls[1].api = "create_wallet_set"
           /\ CallReq(1).name = IF FReq.wallet_set_name.is_none
                                 THEN DefaultSetName(FReq.user_id)
                                 ELSE FReq.wallet_set_name.v
           /\ DefaultIsPerUser

\* C18 as amended: the name sent is the name of the request whenever the
\* request supplies a non-empty one; with no name, or with the empty string,
\* it is the default of the user id.
C18_NonEmptyNameOrDefault ==
    SetNameSent
        => /\ F.calls[1].api = "create_wallet_set"
           /\ CallReq(1).name = IF FReq.wallet_set_name.is_none \/ FReq.wallet_set_name.v = ""
                                 THEN DefaultSetName(FReq.user_id)
                                 ELSE FReq.wallet_set_name.v
           /\ DefaultIsPerUser

\* the empty string supplied as the set name
C18_Witness ==
    /\ SetNameSent
    /\ FReq.wallet_set_name = Some("")
    /\ FReq.user_id = "u2"
    /\ CallReq(1).name = "user-u2-wallets"

\* C19: a SendTransaction that returns gives the id and the state the
\* create-transfer call answered with, the amount, token symbol and
\* destination of the request, and no chain transaction hash; the
\* create-transfer request carried the amount, token, destination, wallet id
\* and chain of the request.
C19_ReturnsProviderIdAndEchoesRequest ==
    (FacadeRan("send_transaction") /\ ~F.raised)
        => /\ Len(F.calls) = 2
           /\ F.calls[2].api = "create_developer_transaction_transfer"
           /\ FVal.transaction_id = CallVal(2).id
           /\ FVal.status = CallVal(2).state
           /\ FVal.amount = FReq.amount
           /\ FVal.token_symbol = FReq.token_symbol
           /\ FVal.to_address = FReq.to_address
           /\ FVal.blockchain_tx_hash.is_none
           /\ CallReq(2).amounts = <<FReq.amount>>
           /\ CallReq(2).token_id = FReq.token_symbol
           /\ CallReq(2).destination_address = FReq.to_address
           /\ CallReq(2).wallet_id = FReq.wallet_id
           /\ CallReq(2).blockchain = FReq.blockchain

\* a transfer the provider queued, from a wallet it reports on another chain name
C19_Witness ==
    /\ FacadeRan("send_transaction")
    /\ ~F.raised
    /\ FVal.status = "QUEUED"
    /\ FVal.transaction_id = "tx1"
    /\ CallVal(1).blockchain = "EVM-TESTNET"
    /\ FVal.to_address = "0xdest"
    /\ FVal.from_address = "0xw1"
    /\ last.status = 200

\* C20: in one call of a facade operation no provider operation is invoked
\* twice, and a provider call that fails is the last call of that facade call.
C20_NoRetries ==
    (Len(last.facade) = 1 /\ F.op \in FacadeOperations)
        => /\ \A i, j \in DOMAIN F.calls : i # j => F.calls[i].api # F.calls[j].api
           /\ \A i \in DOMAIN F.calls : F.calls[i].raised => i = Len(F.calls)

\* a list call that failed, and with it the facade call
C20_Witness ==
    /\ FacadeRan("list_wallet_sets")
    /\ Len(F.calls) = 1
    /\ F.calls[1].raised
    /\ F.raised
    /\ F.error.type = "ProviderUnavailable"

RegistryOperations == {"get_network", "is_supported_network", "list_networks"}

\* The step is a call of a facade operation or of a registry function
OperationStep == Len(last'.facade) = 1 /\ last'.facade[1].op \in FacadeOperations \cup RegistryOperations

\* The last facade call returned or raised what the same operation returns or
\* raises on the same request and the same provider answers in a process that
\* has drawn no uuid and sent no transfer
ResultOfArgumentsAndProvider ==
    (Len(last.facade) = 1 /\ F.op \in FacadeOperations)
        => \E r \in RunsOf(entity_secret) :
               /\ r.raised = F.raised
               /\ r.error = F.error
               /\ BoxResult(F.op, r) = F.value
               /\ Len(r.calls) = Len(F.calls)
               /\ \A i \in 1..Len(F.calls) :
                      /\ r.calls[i].api = F.calls[i].api
                      /\ r.calls[i].raised = F.calls[i].raised
                      /\ r.calls[i].value = F.calls[i].value

\* C21: no facade operation and no registry query, successful or failed,
\* changes the in-process state: the registry table, the provider client and
\* the facade instance the operation was called on (the one the dependency
\* get_wallet_service handed to the handler) are the same after the call,
\* no object is constructed by it, and its result is the one the operation
\* gives on the same arguments and provider answers whatever was called before.
C21_CallsChangeNoInProcessState ==
    /\ [][OperationStep =>
            /\ networks' = networks
            /\ circle_client' = circle_client
            /\ IF last'.facade[1].op \in FacadeOperations
               THEN /\ wallet_service' = get_wallet_service.wallet_service
                    /\ constructed' = get_wallet_service.constructed
               ELSE /\ wallet_service' = wallet_service
                    /\ constructed' = constructed]_vars
    /\ [](networks = NETWORKS /\ ResultOfArgumentsAndProvider)

\* a transfer sent by a process that sent one before
C21_Witness ==
    /\ FacadeRan("send_transaction")
    /\ ~F.raised
    /\ uuid_count = 2
    /\ Len(transfers) = 2
    /\ networks = NETWORKS
    /\ circle_client = "ready"
    /\ wallet_service = "created"
    /\ constructed.WalletService = 1

C23_GlobalClientUnsetOrInitialized ==
    /\ ~get_circle_client.raised => get_circle_client.value = "ready"
    /\ (Len(last.facade) = 1 /\ F.op \in FacadeOperations /\ F.raised) => F.error # NotInitialized.error

\* C24: SendTransaction on a chain of the registry submits a transfer only
\* after the provider's lookup of the source wallet id has succeeded: a
\* create-transfer call is the second SDK call, after an answered get_wallet
\* for request.wallet_id; when the lookup fails, SendTransaction raises the
\* lookup's error and makes no other SDK call; when it returns, from_address
\* is the address the lookup reported.
C24_TransferOnlyAfterLookup ==
    (FacadeRan("send_transaction") /\ FReq.blockchain \in DOMAIN NETWORKS)
        => /\ \A i \in 1..Len(F.calls) :
                  F.calls[i].api = "create_developer_transaction_transfer"
                      => /\ i = 2
                         /\ F.calls[1].api = "get_wallet"
                         /\ CallReq(1) = FReq.wallet_id
                         /\ ~F.calls[1].raised
           /\ (Len(F.calls) >= 1 /\ F.calls[1].api = "get_wallet" /\ F.calls[1].raised)
                  => /\ F.raised
                     /\ F.error = F.calls[1].error
                     /\ Len(F.calls) = 1
           /\ ~F.raised
                  => /\ Len(F.calls) = 2
                     /\ FVal.from_address = CallVal(1).address

\* the lookup fails in a process that sent a transfer before: nothing is sent
C24_Witness ==
    /\ FacadeRan("send_transaction")
    /\ FReq.blockchain = "ARC-TESTNET"
    /\ Len(F.calls) = 1
    /\ F.calls[1].api = "get_wallet"
    /\ F.calls[1].raised
    /\ F.raised
    /\ F.error.type = "ProviderUnavailable"
    /\ Len(transfers) = 1
    /\ uuid_count = 1

\* chain_id is an element of the configured supported-blockchain list
ConfiguredSupported(chain_id) == \E i \in 1..Len(supported_blockchains) : supported_blockchains[i] = chain_id

\* The last facade call refused its chain id
ChainRefused == F.raised /\ F.error = UnsupportedNetworkError(FReq.blockchain)

\* C25: CreateWallet and SendTransaction accept a chain id exactly when it is
\* a key of the registry, whatever the configured supported-blockchain list
\* holds; the supported flag of every entry of GET /networks and of the entry
\* of GET /networks/{chainId} tells exactly whether the chain id is in that
\* list, and GET /networks/{chainId} answers 404 exactly for a chain id that
\* is no key of the registry.
C25_RegistryDecidesAcceptance ==
    /\ (FacadeRan("create_wallet") \/ FacadeRan("send_transaction"))
          => (~ChainRefused <=> FReq.blockchain \in DOMAIN NETWORKS)
    /\ FacadeRan("list_supported_networks")
          => /\ ~F.raised
             /\ DOMAIN FVal = DOMAIN NETWORKS
             /\ \A chain_id \in DOMAIN FVal :
                    /\ FVal[chain_id].chain_id = chain_id
                    /\ FVal[chain_id].supported = ConfiguredSupported(chain_id)
    /\ FacadeRan("get_network_info")
          => /\ F.raised <=> FReq \notin DOMAIN NETWORKS
             /\ F.raised => last.status = 404
             /\ ~F.raised => (last.status = 200 /\ FVal.supported = ConfiguredSupported(FReq))

\* a wallet created on a chain of the registry that the configured list
\* leaves out, while a chain the list names is no key
C25_Witness ==
    /\ FacadeRan("create_wallet")
    /\ ~F.raised
    /\ FReq.blockchain = "ARC-TESTNET"
    /\ ~ConfiguredSupported("ARC-TESTNET")
    /\ ConfiguredSupported("DOGE-MAINNET")
    /\ last.status = 200

\* The provider call of the last health check: made, answered, failed
HealthProbed == Len(F.calls) = 1 /\ F.calls[1].api = "list_wallet_sets"
HealthProbeAnswered == HealthProbed /\ ~F.calls[1].raised
HealthProbeFailed == HealthProbed /\ F.calls[1].raised

\* What holds of every GET /health: it is answered 200 with a health record
\* on any key or none, makes at most one provider call, a list of the wallet
\* sets, and reports healthy exactly when that call was answered and
\* disconnected when it failed
HealthAlwaysAnswers ==
    /\ last.status = 200
    /\ ~F.raised
    /\ F.calls = <<>> \/ HealthProbed
    /\ FVal.status \in {"healthy", "degraded"}
    /\ FVal.status = "healthy" <=> HealthProbeAnswered
    /\ FVal.status = "healthy" <=> FVal.circle_api = "connected"
    /\ HealthProbeFailed => (FVal.status = "degraded" /\ FVal.circle_api = "disconnected")

====
